---------------------------- MODULE Spec2Model ----------------------------
(***************************************************************************)
(* Model of the PDF structural decomposition engine of long_form_tts:      *)
(*   src/src/shared/pdf_parser/resolve_content.py                          *)
(*     _get_toc, resolve_content_pages, _estimate_tokens,                  *)
(*     resolve_content_sections                                            *)
(*   src/src/shared/pdf_parser/extract_toc.py, classify_entry.py,          *)
(*   infer_toc.py (the lru_cache around the layout analysis)               *)
(*                                                                         *)
(* A document is its page count, its bookmarks (doc.get_toc()), the        *)
(* headings layout analysis would find, and the text length of each page.  *)
(* One call of resolve_content_sections is three steps: the call of        *)
(* resolve_content_pages, the second _get_toc call with the construction   *)
(* of the initial sections, and one step per pass of the budget loop.      *)
(***************************************************************************)
EXTENDS Integers, Sequences, FiniteSets, TLC

(***************************************************************************)
(* Bounds of the model.                                                    *)
(***************************************************************************)
\* pages of the modelled document
NumPages == 2
\* longest bookmark list / inferred heading list
MaxEntries == 2
\* deepest outline level that bookmarks use
MaxLevel == 2
\* documents of a session
NumPaths == 5
\* runs of the layout analysis counted per document
MaxRuns == 2

(***************************************************************************)
(* Program constants.                                                      *)
(***************************************************************************)
\* min_coverage default 0.3, in tenths
DefaultMinCoverage == 3
\* _estimate_tokens: chars // 4
CharsPerToken == 4
\* max_tokens=None, the budget disabled
None == -1
\* @lru_cache(maxsize=4) of infer_toc
CacheSize == 4

(***************************************************************************)
(* Generic helpers.                                                        *)
(***************************************************************************)
SeqUpTo(S, n) == UNION {[1..k -> S] : k \in 0..n}

MaxOf(S) == CHOOSE x \in S : \A y \in S : y <= x

RECURSIVE Reverse(_)
Reverse(s) == IF s = <<>> THEN <<>> ELSE Append(Reverse(Tail(s)), Head(s))

RECURSIVE SumChars(_, _, _)
SumChars(text, lo, hi) ==
    IF lo > hi THEN 0 ELSE text[lo] + SumChars(text, lo + 1, hi)

(***************************************************************************)
(* types.py                                                                *)
(***************************************************************************)
TOCEntry(level, title, page) ==
    [level |-> level, title |-> title, page |-> page, kind |-> ""]

ContentRange(start_page, end_page, total, skipped_front, skipped_back) ==
    [start_page |-> start_page, end_page |-> end_page, total_pages |-> total,
     skipped_front |-> skipped_front, skipped_back |-> skipped_back]

\* a section title is the entry's title and the " (part N)" suffixes added to it
TOCSection(title, level, start_page, end_page) ==
    [title |-> title, level |-> level,
     start_page |-> start_page, end_page |-> end_page]

PlainTitle(t) == [base |-> t, parts |-> <<>>]

\* a chunk title without its part number
PartTitleUnnumbered(title, part) == title

\* f"{sec.title} (part {part})"
PartTitle(title, part) == [title EXCEPT !.parts = Append(@, part)]

(***************************************************************************)
(* Text.  A title is a string; TextOf gives the characters of each string  *)
(* of the model, and StringOf the string of a character sequence.          *)
(***************************************************************************)
TextOf ==
    ("Cover" :> <<"C", "o", "v", "e", "r">>) @@
    ("Preface" :> <<"P", "r", "e", "f", "a", "c", "e">>) @@
    ("Chapter 1" :> <<"C", "h", "a", "p", "t", "e", "r", " ", "1">>) @@
    ("Index" :> <<"I", "n", "d", "e", "x">>) @@
    ("  Chapter 1  " :> <<" ", " ", "C", "h", "a", "p", "t", "e", "r", " ", "1", " ", " ">>) @@
    (" Cover" :> <<" ", "C", "o", "v", "e", "r">>) @@
    ("COVER" :> <<"C", "O", "V", "E", "R">>) @@
    ("Index\n" :> <<"I", "n", "d", "e", "x", "\n">>) @@
    ("Covers" :> <<"C", "o", "v", "e", "r", "s">>) @@
    ("" :> <<>>) @@
    ("  " :> <<" ", " ">>) @@
    ("Praise for the Book" :> <<"P", "r", "a", "i", "s", "e", " ", "f", "o", "r", " ", "t", "h", "e", " ", "B", "o", "o", "k">>) @@
    ("Praised" :> <<"P", "r", "a", "i", "s", "e", "d">>) @@
    ("Appendix A" :> <<"A", "p", "p", "e", "n", "d", "i", "x", " ", "A">>) @@
    ("About the Authors" :> <<"A", "b", "o", "u", "t", " ", "t", "h", "e", " ", "A", "u", "t", "h", "o", "r", "s">>) @@
    ("About the Cover" :> <<"A", "b", "o", "u", "t", " ", "t", "h", "e", " ", "C", "o", "v", "e", "r">>) @@
    ("Introduction" :> <<"I", "n", "t", "r", "o", "d", "u", "c", "t", "i", "o", "n">>) @@
    ("Introductions" :> <<"I", "n", "t", "r", "o", "d", "u", "c", "t", "i", "o", "n", "s">>) @@
    ("Acknowledgment" :> <<"A", "c", "k", "n", "o", "w", "l", "e", "d", "g", "m", "e", "n", "t">>) @@
    ("List of Tables" :> <<"L", "i", "s", "t", " ", "o", "f", " ", "T", "a", "b", "l", "e", "s">>) @@
    ("TableOfContents" :> <<"T", "a", "b", "l", "e", "O", "f", "C", "o", "n", "t", "e", "n", "t", "s">>) @@
    ("Half Title" :> <<"H", "a", "l", "f", " ", "T", "i", "t", "l", "e">>) @@
    ("Endorsement" :> <<"E", "n", "d", "o", "r", "s", "e", "m", "e", "n", "t">>) @@
    ("Also by Author" :> <<"A", "l", "s", "o", " ", "b", "y", " ", "A", "u", "t", "h", "o", "r">>) @@
    ("Prefaces and Covers" :> <<"P", "r", "e", "f", "a", "c", "e", "s", " ", "a", "n", "d", " ", "C", "o", "v", "e", "r", "s">>) @@
    ("Indexing" :> <<"I", "n", "d", "e", "x", "i", "n", "g">>)

AllTitles == DOMAIN TextOf

StringOf(chars) == CHOOSE s \in AllTitles : TextOf[s] = chars

\* the titles of the documents given to resolve_content_sections
Titles == {"Cover", "Preface", "Chapter 1", "Index"}

UpperCase ==
    <<"A", "B", "C", "D", "E", "F", "G", "H", "I", "J", "K", "L", "M",
      "N", "O", "P", "Q", "R", "S", "T", "U", "V", "W", "X", "Y", "Z">>

LowerCase ==
    <<"a", "b", "c", "d", "e", "f", "g", "h", "i", "j", "k", "l", "m",
      "n", "o", "p", "q", "r", "s", "t", "u", "v", "w", "x", "y", "z">>

Digits == {"0", "1", "2", "3", "4", "5", "6", "7", "8", "9"}

Whitespace == {" ", "\t", "\n", "\r", "\f"}

\* re.IGNORECASE: a character folded to lower case
Lower(c) ==
    IF \E i \in DOMAIN UpperCase : UpperCase[i] = c
    THEN LowerCase[CHOOSE i \in DOMAIN UpperCase : UpperCase[i] = c]
    ELSE c

\* \w
IsWordChar(c) ==
    \/ \E i \in DOMAIN LowerCase : LowerCase[i] = Lower(c)
    \/ c \in Digits
    \/ c = "_"

RECURSIVE LStrip(_)
LStrip(chars) ==
    IF chars # <<>> /\ Head(chars) \in Whitespace THEN LStrip(Tail(chars)) ELSE chars

\* str.strip() on characters
StripChars(chars) == Reverse(LStrip(Reverse(LStrip(chars))))

\* str.strip() of every string of the model
Stripped == [s \in AllTitles |-> StringOf(StripChars(TextOf[s]))]

\* str.strip()
strip(s) == Stripped[s]

(***************************************************************************)
(* The regular expressions of classify_entry.py: a pattern is a sequence   *)
(* of the elements below, and Search is pattern.search(text) of a pattern  *)
(* compiled with re.IGNORECASE.                                            *)
(***************************************************************************)
\* ^
Anchor == <<[t |-> "^"]>>
\* $
EndAnchor == <<[t |-> "$"]>>
\* \s*
Spaces == <<[t |-> "\\s*"]>>
\* \b
Boundary == <<[t |-> "\\b"]>>
\* c?
Optional(c) == <<[t |-> "?", c |-> c]>>
\* literal characters
Lit(chars) == [i \in DOMAIN chars |-> [t |-> "lit", c |-> chars[i]]]
\* (a|b|c)
OneOf(alternatives) == <<[t |-> "|", alts |-> alternatives]>>

AtWord(chars, i) == i >= 1 /\ i <= Len(chars) /\ IsWordChar(chars[i])

\* the pattern matches a substring of chars that starts at index i
RECURSIVE MatchAt(_, _, _)
MatchAt(pattern, chars, i) ==
    IF pattern = <<>> THEN TRUE
    ELSE LET el == Head(pattern)
             rest == Tail(pattern)
         IN  CASE el.t = "^" -> i = 1 /\ MatchAt(rest, chars, i)
               [] el.t = "$" ->
                     /\ \/ i = Len(chars) + 1
                        \/ i = Len(chars) /\ chars[i] = "\n"
                     /\ MatchAt(rest, chars, i)
               [] el.t = "\\s*" ->
                     \/ MatchAt(rest, chars, i)
                     \/ /\ i <= Len(chars)
                        /\ chars[i] \in Whitespace
                        /\ MatchAt(pattern, chars, i + 1)
               [] el.t = "\\b" ->
                     /\ AtWord(chars, i - 1) # AtWord(chars, i)
                     /\ MatchAt(rest, chars, i)
               [] el.t = "?" ->
                     \/ /\ i <= Len(chars)
                        /\ Lower(chars[i]) = el.c
                        /\ MatchAt(rest, chars, i + 1)
                     \/ MatchAt(rest, chars, i)
               [] el.t = "lit" ->
                     /\ i <= Len(chars)
                     /\ Lower(chars[i]) = el.c
                     /\ MatchAt(rest, chars, i + 1)
               [] el.t = "|" ->
                     \E alt \in el.alts : MatchAt(alt \o rest, chars, i)

Search(pattern, chars) == \E i \in 1..(Len(chars) + 1) : MatchAt(pattern, chars, i)

(***************************************************************************)
(* classify_entry.py                                                       *)
(***************************************************************************)
FRONT_MATTER_PATTERNS ==
    <<
       \* ^cover$
       Anchor \o Lit(<<"c", "o", "v", "e", "r">>) \o EndAnchor,
       \* ^half\s*title
       Anchor \o Lit(<<"h", "a", "l", "f">>) \o Spaces \o Lit(<<"t", "i", "t", "l", "e">>),
       \* ^title\s*page
       Anchor \o Lit(<<"t", "i", "t", "l", "e">>) \o Spaces \o Lit(<<"p", "a", "g", "e">>),
       \* ^copyright
       Anchor \o Lit(<<"c", "o", "p", "y", "r", "i", "g", "h", "t">>),
       \* ^table\s*of\s*contents$
       Anchor \o Lit(<<"t", "a", "b", "l", "e">>) \o Spaces \o Lit(<<"o", "f">>) \o Spaces \o Lit(<<"c", "o", "n", "t", "e", "n", "t", "s">>) \o EndAnchor,
       \* ^contents$
       Anchor \o Lit(<<"c", "o", "n", "t", "e", "n", "t", "s">>) \o EndAnchor,
       \* ^list\s*of\s*(figures|tables|illustrations)
       Anchor \o Lit(<<"l", "i", "s", "t">>) \o Spaces \o Lit(<<"o", "f">>) \o Spaces \o OneOf({Lit(<<"f", "i", "g", "u", "r", "e", "s">>), Lit(<<"t", "a", "b", "l", "e", "s">>), Lit(<<"i", "l", "l", "u", "s", "t", "r", "a", "t", "i", "o", "n", "s">>)}),
       \* ^dedication
       Anchor \o Lit(<<"d", "e", "d", "i", "c", "a", "t", "i", "o", "n">>),
       \* ^epigraph
       Anchor \o Lit(<<"e", "p", "i", "g", "r", "a", "p", "h">>),
       \* ^praise\b
       Anchor \o Lit(<<"p", "r", "a", "i", "s", "e">>) \o Boundary,
       \* ^endorsements?$
       Anchor \o Lit(<<"e", "n", "d", "o", "r", "s", "e", "m", "e", "n", "t">>) \o Optional("s") \o EndAnchor,
       \* ^also\s*by\b
       Anchor \o Lit(<<"a", "l", "s", "o">>) \o Spaces \o Lit(<<"b", "y">>) \o Boundary,
       \* ^about\s*the\s*cover
       Anchor \o Lit(<<"a", "b", "o", "u", "t">>) \o Spaces \o Lit(<<"t", "h", "e">>) \o Spaces \o Lit(<<"c", "o", "v", "e", "r">>)
    >>

BACK_MATTER_PATTERNS ==
    <<
       \* ^index$
       Anchor \o Lit(<<"i", "n", "d", "e", "x">>) \o EndAnchor,
       \* ^glossary$
       Anchor \o Lit(<<"g", "l", "o", "s", "s", "a", "r", "y">>) \o EndAnchor,
       \* ^bibliography$
       Anchor \o Lit(<<"b", "i", "b", "l", "i", "o", "g", "r", "a", "p", "h", "y">>) \o EndAnchor,
       \* ^references$
       Anchor \o Lit(<<"r", "e", "f", "e", "r", "e", "n", "c", "e", "s">>) \o EndAnchor,
       \* ^about\s*the\s*authors?$
       Anchor \o Lit(<<"a", "b", "o", "u", "t">>) \o Spaces \o Lit(<<"t", "h", "e">>) \o Spaces \o Lit(<<"a", "u", "t", "h", "o", "r">>) \o Optional("s") \o EndAnchor,
       \* ^colophon$
       Anchor \o Lit(<<"c", "o", "l", "o", "p", "h", "o", "n">>) \o EndAnchor,
       \* ^appendix
       Anchor \o Lit(<<"a", "p", "p", "e", "n", "d", "i", "x">>)
    >>

PREAMBLE_PATTERNS ==
    <<
       \* ^foreword
       Anchor \o Lit(<<"f", "o", "r", "e", "w", "o", "r", "d">>),
       \* ^preface
       Anchor \o Lit(<<"p", "r", "e", "f", "a", "c", "e">>),
       \* ^introduction$
       Anchor \o Lit(<<"i", "n", "t", "r", "o", "d", "u", "c", "t", "i", "o", "n">>) \o EndAnchor,
       \* ^acknowledgments?$
       Anchor \o Lit(<<"a", "c", "k", "n", "o", "w", "l", "e", "d", "g", "m", "e", "n", "t">>) \o Optional("s") \o EndAnchor
    >>

MatchesFront(title) ==
    \E i \in DOMAIN FRONT_MATTER_PATTERNS : Search(FRONT_MATTER_PATTERNS[i], title)

MatchesBack(title) ==
    \E i \in DOMAIN BACK_MATTER_PATTERNS : Search(BACK_MATTER_PATTERNS[i], title)

MatchesPreamble(title) ==
    \E i \in DOMAIN PREAMBLE_PATTERNS : Search(PREAMBLE_PATTERNS[i], title)

\* a classifier that matches the title as given, without strip()
ClassifyUnstripped(entry) ==
    LET title == TextOf[entry.title]
    IN  IF MatchesFront(title) THEN "front"
        ELSE IF MatchesBack(title) THEN "back"
        ELSE IF MatchesPreamble(title) THEN "preamble"
        ELSE "content"

\* lines 53-63 for every title: the kind depends on entry.title only
KindOfTitle ==
    [s \in AllTitles |->
        LET title == StripChars(TextOf[s])
        IN  IF MatchesFront(title) THEN "front"
            ELSE IF MatchesBack(title) THEN "back"
            ELSE IF MatchesPreamble(title) THEN "preamble"
            ELSE "content"]

classify_entry(entry) == KindOfTitle[entry.title]

ClassifyAll(es) == [i \in DOMAIN es |-> [es[i] EXCEPT !.kind = classify_entry(es[i])]]

IsContentKind(kind) == kind \in {"preamble", "content"}

(***************************************************************************)
(* extract_toc.py: bookmarks (level, title, 1-based page) to entries.      *)
(***************************************************************************)
\* a conversion that keeps the 1-based page of the bookmark
RECURSIVE ExtractTocOneBased(_)
ExtractTocOneBased(raw) ==
    IF raw = <<>> THEN <<>>
    ELSE LET b == Head(raw)
             page_0 == b.page - 1
         IN  IF page_0 < 0
             THEN ExtractTocOneBased(Tail(raw))
             ELSE <<TOCEntry(b.level, strip(b.title), b.page)>>
                      \o ExtractTocOneBased(Tail(raw))

RECURSIVE extract_toc(_)
extract_toc(raw) ==
    IF raw = <<>> THEN <<>>
    ELSE LET b == Head(raw)
             page_0 == b.page - 1
         IN  IF page_0 < 0
             THEN extract_toc(Tail(raw))
             ELSE <<TOCEntry(b.level, strip(b.title), page_0)>>
                      \o extract_toc(Tail(raw))

(***************************************************************************)
(* resolve_content.py: _get_toc                                            *)
(***************************************************************************)
MaxPage(es) == MaxOf({es[i].page : i \in DOMAIN es})

\* a threshold that the boundary page itself does not reach
CoverageOkStrict(max_page, total, min_cov) == max_page * 10 > total * min_cov

\* max_page >= total_pages * min_coverage, min_coverage in tenths.  The
\* float product of the source and the exact product order every integer
\* max_page the same way for documents below 300 pages.
CoverageOk(max_page, total, min_cov) == max_page * 10 >= total * min_cov

EmbeddedTrusted(embedded, total, min_cov) ==
    /\ embedded # <<>>
    /\ CoverageOk(MaxPage(embedded), total, min_cov)

\* a selector that keeps a sparse embedded outline when inference finds nothing
GetTocKeepEmbedded(embedded, total, min_cov, inferred) ==
    IF EmbeddedTrusted(embedded, total, min_cov) \/ inferred = <<>>
    THEN embedded ELSE inferred

\* the list _get_toc returns, given what infer_toc would return
GetToc(embedded, total, min_cov, inferred) ==
    IF EmbeddedTrusted(embedded, total, min_cov) THEN embedded ELSE inferred

(***************************************************************************)
(* resolve_content.py: resolve_content_pages                               *)
(***************************************************************************)
TopLevel(es) == SelectSeq(es, LAMBDA e : e.level = 1)

\* f"p.{entry.page}: {entry.title} [{entry.kind}]"
Skipped(entry) == <<entry.page, entry.title, entry.kind>>

\* the forward scan: <<start_page, skipped_front>>
RECURSIVE ScanFront(_, _)
ScanFront(top, skipped) ==
    IF top = <<>> THEN <<0, skipped>>
    ELSE IF IsContentKind(Head(top).kind) THEN <<Head(top).page, skipped>>
    ELSE ScanFront(Tail(top), Append(skipped, Skipped(Head(top))))

\* the scan of reversed(top_level): <<end_page, skipped_back as appended>>
RECURSIVE ScanBack(_, _, _)
ScanBack(rev, end_page, skipped) ==
    IF rev = <<>> THEN <<end_page, skipped>>
    ELSE IF Head(rev).kind = "back"
         THEN ScanBack(Tail(rev), Head(rev).page - 1,
                       Append(skipped, Skipped(Head(rev))))
    ELSE <<end_page, skipped>>

resolve_content_pages(es, total) ==
    IF es = <<>>
    THEN ContentRange(0, total - 1, total, <<>>, <<>>)
    ELSE LET top == TopLevel(ClassifyAll(es))
             front == ScanFront(top, <<>>)
             back == ScanBack(Reverse(top), total - 1, <<>>)
         IN  ContentRange(front[1], back[1], total, front[2], Reverse(back[2]))

(***************************************************************************)
(* resolve_content.py: _estimate_tokens                                    *)
(***************************************************************************)
\* text[p] is len(doc[p].get_text()) of page p
_estimate_tokens(text, start_page, end_page) ==
    SumChars(text, start_page, end_page) \div CharsPerToken

(***************************************************************************)
(* resolve_content.py: resolve_content_sections, lines 149-192             *)
(***************************************************************************)
\* a fallback section that spans the file instead of the content range
FullDocumentWholeFile(range) ==
    <<TOCSection(PlainTitle("Full Document"), 1, 0, range.total_pages - 1)>>

FullDocument(range) ==
    <<TOCSection(PlainTitle("Full Document"), 1, range.start_page, range.end_page)>>

DeepestLevel(es) == MaxOf({es[i].level : i \in DOMAIN es})

\* a selection that keeps entries whatever their page
ContentEntriesAnyPage(es, range, maxlevel) ==
    SelectSeq(es, LAMBDA e : e.level <= maxlevel /\ IsContentKind(e.kind))

ContentEntries(es, range, maxlevel) ==
    SelectSeq(es, LAMBDA e : /\ e.level <= maxlevel
                             /\ IsContentKind(e.kind)
                             /\ range.start_page <= e.page
                             /\ e.page <= range.end_page)

\* one section per entry of a list: each ends before the next entry and the
\* last at last_end (lines 182-192 and 262-272)
SectionsOf(es, last_end) ==
    [i \in DOMAIN es |->
        TOCSection(PlainTitle(es[i].title), es[i].level, es[i].page,
                   IF i + 1 <= Len(es)
                   THEN (IF es[i].page >= es[i + 1].page - 1
                         THEN es[i].page ELSE es[i + 1].page - 1)
                   ELSE last_end)]

\* a budget test that never finds the budget disabled
BudgetDisabledNever(budget) == FALSE

\* line 194: max_tokens is None
BudgetDisabled(budget) == budget = None

InitialSections(es, range, maxlevel) ==
    IF es = <<>> THEN FullDocument(range)
    ELSE LET content_entries == ContentEntries(es, range, maxlevel)
         IN  IF content_entries = <<>> THEN FullDocument(range)
             ELSE SectionsOf(content_entries, range.end_page)

(***************************************************************************)
(* resolve_content.py: the budget loop, lines 201-275                      *)
(***************************************************************************)
Children(es, sec) ==
    SelectSeq(es, LAMBDA e : /\ e.level = sec.level + 1
                             /\ IsContentKind(e.kind)
                             /\ sec.start_page <= e.page
                             /\ e.page <= sec.end_page)

\* lines 222-245: the page loop from pg on; <<chunks, part>>
RECURSIVE PageChunks(_, _, _, _, _, _, _)
PageChunks(text, budget, sec, pg, chunk_start, part, acc) ==
    IF pg > sec.end_page
    THEN <<Append(acc, TOCSection(IF part > 1 THEN PartTitle(sec.title, part)
                                              ELSE sec.title,
                                  sec.level, chunk_start, sec.end_page)),
           part>>
    ELSE IF _estimate_tokens(text, chunk_start, pg) > budget /\ pg > chunk_start
         THEN PageChunks(text, budget, sec, pg + 1, pg, part + 1,
                         Append(acc, TOCSection(PartTitle(sec.title, part),
                                                sec.level, chunk_start, pg - 1)))
         ELSE PageChunks(text, budget, sec, pg + 1, chunk_start, part, acc)

\* a loop that asks for another pass after every page-chunking
ChunkChangedAlways(changed, part) == TRUE

\* the value the page-chunk branch assigns to changed (line 244)
ChunkChanged(changed, part) == part > 1

\* a subdivision that forgets the parent's pages before the first child
SubdivideNoLead(sec, children) == SectionsOf(children, sec.end_page)

\* a subdivision that emits the parent's leading section even when it is empty
SubdivideAlwaysLead(sec, children) ==
    <<TOCSection(sec.title, sec.level, sec.start_page, children[1].page - 1)>>
    \o SectionsOf(children, sec.end_page)

\* lines 251-273: the parent's leading pages, then one section per child
Subdivide(sec, children) ==
    (IF children[1].page > sec.start_page
     THEN <<TOCSection(sec.title, sec.level, sec.start_page, children[1].page - 1)>>
     ELSE <<>>)
    \o SectionsOf(children, sec.end_page)

\* a level test that takes every section for one of the deepest level
AtDeepestAlways(sec, deepest) == TRUE

\* line 219: the section is at the deepest level of the outline
AtDeepest(sec, deepest) == sec.level >= deepest

\* one iteration of "for sec in sections": <<sections to append, changed>>
ProcessSection(text, budget, es, deepest, sec, changed) ==
    IF _estimate_tokens(text, sec.start_page, sec.end_page) <= budget
    THEN <<(<<sec>>), changed>>
    ELSE LET children == Children(es, sec)
         IN  IF children = <<>> /\ AtDeepest(sec, deepest)
             THEN LET r == PageChunks(text, budget, sec, sec.start_page,
                                      sec.start_page, 1, <<>>)
                  IN  <<r[1], ChunkChanged(changed, r[2])>>
             ELSE IF children = <<>>
             THEN <<(<<sec>>), changed>>
             ELSE <<Subdivide(sec, children), TRUE>>

\* one pass of the while loop: <<new_sections, changed>>
RECURSIVE PassFrom(_, _, _, _, _, _, _)
PassFrom(text, budget, es, deepest, secs, acc, changed) ==
    IF secs = <<>> THEN <<acc, changed>>
    ELSE LET r == ProcessSection(text, budget, es, deepest, Head(secs), changed)
         IN  PassFrom(text, budget, es, deepest, Tail(secs), acc \o r[1], r[2])

Pass(text, budget, es, secs) ==
    PassFrom(text, budget, es, DeepestLevel(es), secs, <<>>, FALSE)

\* the whole loop, run from a section list to the list it returns
RECURSIVE EnforceBudget(_, _, _, _)
EnforceBudget(text, budget, es, secs) ==
    LET r == Pass(text, budget, es, secs)
    IN  IF r[2] THEN EnforceBudget(text, budget, es, r[1]) ELSE r[1]

(***************************************************************************)
(* Inputs of the model.                                                    *)
(***************************************************************************)
\* doc.get_toc(): bookmarks with 1-based pages inside the document
Bookmarks == [level : 1..MaxLevel, title : Titles, page : 1..NumPages]

\* what infer_toc returns for the document in this model: no heading, or one
\* level-1 heading on the first or the last page
InferredEntries ==
    {TOCEntry(1, t, p) : t \in Titles, p \in {0, NumPages - 1}}

InferredOutlines == SeqUpTo(InferredEntries, 1)

\* text lengths of a page: 2 characters are 0 tokens, 8 characters are 2
PageChars == {2, 8}

\* the positive budgets of the model
Budgets == {1}

NoRange == ContentRange(0, 0, 0, <<>>, <<>>)

(***************************************************************************)
(* State.                                                                  *)
(***************************************************************************)
VARIABLES
    total_pages,    \* len(doc)
    raw_toc,        \* doc.get_toc()
    text,           \* page -> len(get_text()), <<>> until the estimator opens doc
    max_level,      \* argument of resolve_content_sections
    max_tokens,     \* argument of resolve_content_sections, None or positive
    min_coverage,   \* argument, in tenths
    infer_cache,    \* the lru_cache entry of infer_toc for the document path
    infer_calls,    \* how often infer_toc(pdf_path) was called
    infer_runs,     \* how often the body of infer_toc ran (the cache misses)
    pc,             \* where the call is
    toc,            \* what the last _get_toc or extract_toc call returned
    content_range,  \* what resolve_content_pages returned
    all_entries,    \* all_entries of resolve_content_sections, classified
    sections,       \* sections of resolve_content_sections
    changed,        \* the loop flag
    exception,      \* the error that left the call, "" when none did
    call_entries,   \* the entries given to classify_entry, one per call
    call_kinds,     \* what the classify_entry calls made so far returned
    session_cache,  \* the paths in infer_toc's lru_cache, least recent first
    session_runs,   \* path -> how often the body of infer_toc ran for it
    open_docs,      \* how many pymupdf documents are open
    headings,       \* infer_toc: the headings left after the noise filters
    sized,          \* infer_toc: sized, the font sizes looked up so far
    entries,        \* infer_toc: the entries it returns
    files,          \* resolve_input: file name -> chunks of the file in dest_dir
    request,        \* resolve_input: the download under way
    resolved,       \* resolve_input: what the last call returned
    markdown,       \* split_by_headings: its argument, as characters
    web_sections    \* split_by_headings: the list it returned

vars == <<total_pages, raw_toc, text, max_level, max_tokens, min_coverage,
          infer_cache, infer_calls, infer_runs, pc, toc, content_range, all_entries,
          sections, changed, exception, call_entries, call_kinds,
          session_cache, session_runs, open_docs, headings, sized, entries,
          files, request, resolved, markdown, web_sections>>

\* the call's view of the document and of its arguments
docvars == <<total_pages, raw_toc, max_level, max_tokens, min_coverage>>

\* the state of the classify_entry calls and of the session's inference cache
classvars == <<call_entries, call_kinds>>

sessionvars == <<session_cache, session_runs>>

\* the state of an infer_toc call, of the resolve_input calls and of a
\* split_by_headings call
infervars == <<headings, sized, entries>>

inputvars == <<files, request, resolved>>

webvars == <<markdown, web_sections>>

apartvars == <<infervars, inputvars, webvars>>

Embedded == extract_toc(raw_toc)

Trusted == EmbeddedTrusted(Embedded, total_pages, min_coverage)

\* what infer_toc(pdf_path) can return now: the cached list, else any outline
InferChoices ==
    IF Trusted THEN {<<>>}
    ELSE IF infer_cache.cached THEN {infer_cache.value}
    ELSE InferredOutlines

\* infer_toc is entered only when the embedded outline is not trusted, and
\* its body runs only on a cache miss
InferCacheAfter(inferred) ==
    IF Trusted THEN infer_cache ELSE [cached |-> TRUE, value |-> inferred]

InferCallsAfter == IF Trusted THEN infer_calls ELSE infer_calls + 1

InferRunsAfter ==
    IF Trusted \/ infer_cache.cached THEN infer_runs ELSE infer_runs + 1

InitCall ==
    /\ text = <<>>
    /\ infer_cache = [cached |-> FALSE, value |-> <<>>]
    /\ infer_calls = 0
    /\ infer_runs = 0
    /\ pc = "start"
    /\ toc = <<>>
    /\ content_range = NoRange
    /\ all_entries = <<>>
    /\ sections = <<>>
    /\ changed = FALSE
    /\ exception = ""

\* no classify_entry call and no session of several documents
InitIdle ==
    /\ call_entries = <<>>
    /\ call_kinds = <<>>
    /\ session_cache = <<>>
    /\ session_runs = <<>>

\* no infer_toc call of its own, no resolve_input call, no split_by_headings
IdleInfer == headings = <<>> /\ sized = <<>> /\ entries = <<>>

IdleInput == files = <<>> /\ request = <<>> /\ resolved = <<>>

IdleWeb == markdown = <<>> /\ web_sections = <<>>

InitApart == open_docs = 0 /\ IdleInfer /\ IdleInput /\ IdleWeb

Init ==
    /\ total_pages = NumPages
    /\ raw_toc \in SeqUpTo(Bookmarks, MaxEntries)
    /\ max_level \in 1..MaxLevel
    /\ max_tokens \in {None} \cup Budgets
    /\ min_coverage = DefaultMinCoverage
    /\ InitCall
    /\ InitApart
    /\ InitIdle

(***************************************************************************)
(* resolve_content_sections, line 146: content_range =                     *)
(* resolve_content_pages(pdf_path).  The entries of a list that came from  *)
(* infer_toc are the cached objects, so the kinds assigned at line 68 stay *)
(* in the cache.                                                           *)
(***************************************************************************)
CallResolveContentPages ==
    /\ pc = "start"
    /\ \E inferred \in InferChoices :
          LET es == GetToc(Embedded, total_pages, min_coverage, inferred)
          IN  /\ toc' = es
              /\ content_range' = resolve_content_pages(es, total_pages)
              /\ infer_cache' = InferCacheAfter(ClassifyAll(inferred))
              /\ infer_calls' = InferCallsAfter
              /\ infer_runs' = InferRunsAfter
    /\ pc' = "pages_done"
    /\ UNCHANGED <<docvars, text, all_entries, sections, changed, exception,
                   classvars, sessionvars, open_docs, apartvars>>

(***************************************************************************)
(* Lines 147-201: the second _get_toc call, the initial sections, and the  *)
(* three returns before the loop.                                          *)
(***************************************************************************)
BuildSections ==
    /\ pc = "pages_done"
    /\ \E inferred \in InferChoices :
          LET es == GetToc(Embedded, total_pages, min_coverage, inferred)
              classified == ClassifyAll(es)
              returns == \/ es = <<>>
                         \/ ContentEntries(classified, content_range, max_level) = <<>>
                         \/ BudgetDisabled(max_tokens)
          IN  /\ toc' = es
              /\ all_entries' = classified
              /\ sections' = InitialSections(classified, content_range, max_level)
              /\ infer_cache' = InferCacheAfter(ClassifyAll(inferred))
              /\ infer_calls' = InferCallsAfter
              /\ infer_runs' = InferRunsAfter
              /\ IF returns
                 THEN /\ pc' = "done"
                      /\ changed' = FALSE
                      /\ text' = text
                      /\ open_docs' = open_docs
                 ELSE /\ pc' = "loop"
                      /\ changed' = TRUE
                      /\ text' \in [0..(total_pages - 1) -> PageChars]
                      /\ open_docs' = open_docs + 1
    /\ UNCHANGED <<docvars, content_range, exception, classvars,
                   sessionvars, apartvars>>

(***************************************************************************)
(* Lines 202-275: one pass of "while changed", and the return at 279 when  *)
(* the pass changed nothing.                                               *)
(***************************************************************************)
\* doc[p] exists for every page p of every section (lines 110-111 read them)
InDocument(secs, total) ==
    \A i \in DOMAIN secs :
        /\ 0 <= secs[i].start_page
        /\ secs[i].end_page <= total - 1

BudgetPass ==
    /\ pc = "loop"
    /\ changed
    /\ InDocument(sections, total_pages)
    /\ LET r == Pass(text, max_tokens, all_entries, sections)
       IN  /\ sections' = r[1]
           /\ changed' = r[2]
           /\ pc' = IF r[2] THEN "loop" ELSE "done"
           /\ open_docs' = IF r[2] THEN open_docs ELSE open_docs - 1
    /\ UNCHANGED <<docvars, text, infer_cache, infer_calls, infer_runs, toc,
                   content_range, all_entries, exception, classvars,
                   sessionvars, apartvars>>

Next == CallResolveContentPages \/ BuildSections \/ BudgetPass

Spec == Init /\ [][Next]_vars

\* the call runs to its end: nothing suspends it
FairSpec == Spec /\ WF_vars(Next)

(***************************************************************************)
(* A call of _get_toc(pdf_path, min_coverage) on its own, on documents of  *)
(* 10 and 100 pages whose bookmarks sit around the 30% page.               *)
(***************************************************************************)
\* 1-based bookmark pages; 0 is a corrupt bookmark that extract_toc drops
TocRawPages == {0, 3, 4, 30, 31}

TocBookmarks == [level : {1}, title : {"Chapter 1"}, page : TocRawPages]

\* min_coverage in tenths: 0.0, 0.3, 0.5, 1.0
TocCoverages == {0, DefaultMinCoverage, 5, 10}

InitToc ==
    /\ total_pages \in {10, 100}
    /\ raw_toc \in SeqUpTo(TocBookmarks, MaxEntries)
    /\ max_level = 1
    /\ max_tokens = None
    /\ min_coverage \in TocCoverages
    /\ InitCall
    /\ InitApart
    /\ InitIdle

GetTocCall ==
    /\ pc = "start"
    /\ \E inferred \in InferChoices :
          /\ toc' = GetToc(Embedded, total_pages, min_coverage, inferred)
          /\ infer_cache' = InferCacheAfter(inferred)
          /\ infer_calls' = InferCallsAfter
          /\ infer_runs' = InferRunsAfter
    /\ pc' = "toc_done"
    /\ UNCHANGED <<docvars, text, content_range, all_entries, sections, changed,
                   exception, classvars, sessionvars, open_docs, apartvars>>

NextToc == GetTocCall

SpecToc == InitToc /\ [][NextToc]_vars

(***************************************************************************)
(* resolve_content_sections on outlines of content headings nested one     *)
(* level deeper and one entry longer than those of Spec.                   *)
(***************************************************************************)
NestedBookmarks ==
    [level : 1..(MaxLevel + 1), title : {"Chapter 1"}, page : 1..NumPages]

InitNested ==
    /\ total_pages = NumPages
    /\ raw_toc \in SeqUpTo(NestedBookmarks, MaxEntries + 1)
    /\ max_level \in 1..(MaxLevel + 1)
    /\ max_tokens \in Budgets
    /\ min_coverage = DefaultMinCoverage
    /\ InitCall
    /\ InitApart
    /\ InitIdle

SpecNested == InitNested /\ [][Next]_vars

(***************************************************************************)
(* classify_entry(entry) called on its own, as the tests call it: two      *)
(* calls, on entries of any title of the vocabulary.                       *)
(***************************************************************************)
ClassifyArguments == [level : 1..MaxLevel, title : AllTitles, page : 0..(NumPages - 1)]

InitClassify ==
    /\ total_pages = NumPages
    /\ raw_toc = <<>>
    /\ max_level = 1
    /\ max_tokens = None
    /\ min_coverage = DefaultMinCoverage
    /\ InitCall
    /\ InitApart
    /\ call_entries \in [1..2 -> {TOCEntry(a.level, a.title, a.page) : a \in ClassifyArguments}]
    /\ call_kinds = <<>>
    /\ session_cache = <<>>
    /\ session_runs = <<>>

\* lines 52-63: the call returns the kind and assigns nothing
ClassifyEntryCall ==
    /\ Len(call_kinds) < Len(call_entries)
    /\ call_kinds' = Append(call_kinds, classify_entry(call_entries[Len(call_kinds) + 1]))
    /\ UNCHANGED <<docvars, text, infer_cache, infer_calls, infer_runs, pc, toc,
                   content_range, all_entries, sections, changed, exception,
                   call_entries, sessionvars, open_docs, apartvars>>

NextClassify == ClassifyEntryCall

SpecClassify == InitClassify /\ [][NextClassify]_vars

(***************************************************************************)
(* Bookmarks as doc.get_toc() can give them: titles with padding, pages    *)
(* that are not in the document (-1 and 0 for targets that do not resolve, *)
(* and a page after the last).  extract_toc is called on its own, or the   *)
(* engine is called with the budget disabled.                              *)
(***************************************************************************)
RawTitles == {"  Chapter 1  ", "Index\n"}

RawPages == {-1, 0, 1, NumPages + 1}

RawBookmarks == [level : 1..MaxLevel, title : RawTitles, page : RawPages]

InitExtract ==
    /\ total_pages = NumPages
    /\ raw_toc \in SeqUpTo(RawBookmarks, MaxEntries)
    /\ max_level = MaxLevel
    /\ max_tokens = None
    /\ min_coverage = DefaultMinCoverage
    /\ InitCall
    /\ InitApart
    /\ InitIdle

ExtractTocCall ==
    /\ pc = "start"
    /\ toc' = extract_toc(raw_toc)
    /\ pc' = "extracted"
    /\ UNCHANGED <<docvars, text, infer_cache, infer_calls, infer_runs,
                   content_range, all_entries, sections, changed, exception,
                   classvars, sessionvars, open_docs, apartvars>>

NextExtract == ExtractTocCall \/ CallResolveContentPages \/ BuildSections

SpecExtract == InitExtract /\ [][NextExtract]_vars

(***************************************************************************)
(* resolve_content_sections on longer documents with a flat outline of     *)
(* chapter headings, where an over-budget section can only be split by     *)
(* pages, under budgets of 1 to 3 tokens.                                  *)
(***************************************************************************)
ChunkPages == NumPages + 2

ChunkBookmarks == [level : {1}, title : {"Chapter 1"}, page : 1..ChunkPages]

ChunkBudgets == {1, 2, 3}

InitChunk ==
    /\ total_pages = ChunkPages
    /\ raw_toc \in SeqUpTo(ChunkBookmarks, MaxEntries)
    /\ max_level = 1
    /\ max_tokens \in ChunkBudgets
    /\ min_coverage = DefaultMinCoverage
    /\ InitCall
    /\ InitApart
    /\ InitIdle

SpecChunk == InitChunk /\ [][Next]_vars

(***************************************************************************)
(* resolve_content_sections when a collaborator raises: pymupdf.open,      *)
(* doc.get_toc() or the layout analysis inside a _get_toc call, and        *)
(* pymupdf.open or get_text() of the estimator inside the loop.  The       *)
(* function has no except clause (the try at line 199 has only a finally   *)
(* that closes the document), so the error leaves the call.                *)
(***************************************************************************)
\* a handler that swallows the error and returns the list built so far
AfterRaiseSwallowed(at) == "done"

\* where the call is after an error raised at pc = at
AfterRaise(at) == "raised"

\* lines 146-147: extract_toc or infer_toc raises inside either _get_toc call
OutlineSourceRaises ==
    /\ pc \in {"start", "pages_done"}
    /\ exception' = "outline source"
    /\ pc' = AfterRaise(pc)
    /\ open_docs' \in (IF Trusted THEN {open_docs}
                               ELSE {open_docs, open_docs + 1})
    /\ UNCHANGED <<docvars, text, infer_cache, infer_calls, infer_runs, toc,
                   content_range, all_entries, sections, changed, classvars,
                   sessionvars, apartvars>>

\* lines 198-275: the estimator raises during a pass; new_sections is lost
\* and sections is the list of the pass before
EstimatorRaises ==
    /\ pc = "loop"
    /\ changed
    /\ exception' = "size estimator"
    /\ pc' = AfterRaise(pc)
    /\ open_docs' = open_docs - 1
    /\ UNCHANGED <<docvars, text, infer_cache, infer_calls, infer_runs, toc,
                   content_range, all_entries, sections, changed, classvars,
                   sessionvars, apartvars>>

NextFaulty == Next \/ OutlineSourceRaises \/ EstimatorRaises

SpecFaulty == Init /\ [][NextFaulty]_vars

(***************************************************************************)
(* resolve_content_sections with the budget enabled on documents whose     *)
(* bookmarks can point up to two pages past the last page.  Line 206 hands *)
(* every section of the list to the estimator, whose doc[p] raises for a   *)
(* page that is not in the document.                                       *)
(***************************************************************************)
BeyondBookmarks ==
    [level : {1}, title : {"Chapter 1", "Index"}, page : 1..(NumPages + 2)]

InitBeyond ==
    /\ total_pages = NumPages
    /\ raw_toc \in SeqUpTo(BeyondBookmarks, MaxEntries)
    /\ max_level = 1
    /\ max_tokens \in Budgets
    /\ min_coverage = DefaultMinCoverage
    /\ InitCall
    /\ InitApart
    /\ InitIdle

\* lines 205-206, 110-111: the pass reaches a section with a page that the
\* document does not have; the error leaves the call through the finally
EstimatorIndexError ==
    /\ pc = "loop"
    /\ changed
    /\ ~InDocument(sections, total_pages)
    /\ exception' = "page not in document"
    /\ pc' = AfterRaise(pc)
    /\ open_docs' = open_docs - 1
    /\ UNCHANGED <<docvars, text, infer_cache, infer_calls, infer_runs, toc,
                   content_range, all_entries, sections, changed, classvars,
                   sessionvars, apartvars>>

NextBeyond == Next \/ EstimatorIndexError

SpecBeyond == InitBeyond /\ [][NextBeyond]_vars

(***************************************************************************)
(* A session: calls of resolve_content_pages and resolve_content_sections  *)
(* on several documents, none with a trusted embedded outline, so that     *)
(* every _get_toc call reaches infer_toc(pdf_path) and its lru_cache.      *)
(***************************************************************************)
Paths == 1..NumPaths

InCache(cache, path) == \E i \in DOMAIN cache : cache[i] = path

\* functools.lru_cache: a hit makes the path the most recent entry, a miss
\* adds it and evicts the least recent entry of a full cache
CacheAfter(cache, path) ==
    LET others == SelectSeq(cache, LAMBDA q : q # path)
    IN  IF ~InCache(cache, path) /\ Len(cache) >= CacheSize
        THEN Append(Tail(others), path)
        ELSE Append(others, path)

\* the body of infer_toc runs on a miss
RunsAfter(runs, cache, path) ==
    IF InCache(cache, path) THEN runs ELSE [runs EXCEPT ![path] = @ + 1]

InitSession ==
    /\ total_pages = NumPages
    /\ raw_toc = <<>>
    /\ max_level = 1
    /\ max_tokens = None
    /\ min_coverage = DefaultMinCoverage
    /\ InitCall
    /\ InitApart
    /\ call_entries = <<>>
    /\ call_kinds = <<>>
    /\ session_cache = <<>>
    /\ session_runs = [p \in Paths |-> 0]

\* resolve_content_pages(path): one _get_toc call, one infer_toc call
SessionResolvePages(path) ==
    /\ InCache(session_cache, path) \/ session_runs[path] < MaxRuns
    /\ session_cache' = CacheAfter(session_cache, path)
    /\ session_runs' = RunsAfter(session_runs, session_cache, path)
    /\ UNCHANGED <<docvars, text, infer_cache, infer_calls, infer_runs, pc, toc,
                   content_range, all_entries, sections, changed, exception,
                   classvars, open_docs, apartvars>>

\* resolve_content_sections(path): the infer_toc call of resolve_content_pages
\* (line 146), then that of the second _get_toc (line 147)
SessionResolveSections(path) ==
    /\ InCache(session_cache, path) \/ session_runs[path] < MaxRuns
    /\ LET cache == CacheAfter(session_cache, path)
           runs == RunsAfter(session_runs, session_cache, path)
       IN  /\ session_cache' = CacheAfter(cache, path)
           /\ session_runs' = RunsAfter(runs, cache, path)
    /\ UNCHANGED <<docvars, text, infer_cache, infer_calls, infer_runs, pc, toc,
                   content_range, all_entries, sections, changed, exception,
                   classvars, open_docs, apartvars>>

NextSession ==
    \E path \in Paths : SessionResolvePages(path) \/ SessionResolveSections(path)

SpecSession == InitSession /\ [][NextSession]_vars

(***************************************************************************)
(* infer_toc.py, lines 96-134: the hierarchy assignment of infer_toc, from *)
(* the headings that the noise filters left.  The font-size fallback opens *)
(* the document at line 114, looks every heading up and closes the         *)
(* document at line 119, outside any try statement.                        *)
(***************************************************************************)
\* the characters of the heading titles of the model
HeadingText ==
    "1 Scope" :> <<"1", " ", "S", "c", "o", "p", "e">> @@
    "1.1 Terms" :> <<"1", ".", "1", " ", "T", "e", "r", "m", "s">> @@
    "2.Notes" :> <<"2", ".", "N", "o", "t", "e", "s">> @@
    "Preface" :> <<"P", "r", "e", "f", "a", "c", "e">>

HeadingTitles == DOMAIN HeadingText

\* the end of the run of digits that starts at i (i itself when there is none)
RECURSIVE DigitsEnd(_, _)
DigitsEnd(chars, i) ==
    IF i <= Len(chars) /\ chars[i] \in Digits THEN DigitsEnd(chars, i + 1) ELSE i

\* (?:\.\d+)* from i, greedy: <<end, dots>>
RECURSIVE DottedEnd(_, _, _)
DottedEnd(chars, i, dots) ==
    IF i <= Len(chars) /\ chars[i] = "." /\ DigitsEnd(chars, i + 1) > i + 1
    THEN DottedEnd(chars, DigitsEnd(chars, i + 1), dots + 1)
    ELSE <<i, dots>>

\* line 98, 109: num_pattern.match(t); the count of "." in group(1), None
\* when the title does not match ^(\d+(?:\.\d+)*)\s
NumberingDots(chars) ==
    LET first == DigitsEnd(chars, 1)
        g == DottedEnd(chars, first, 0)
    IN  IF first > 1 /\ g[1] <= Len(chars) /\ chars[g[1]] \in Whitespace
        THEN g[2] ELSE None

Numbered(h) == NumberingDots(HeadingText[h.title]) # None

\* line 100-101: num_count > len(headings) * 0.5
UseNumbering(hs) ==
    Cardinality({i \in DOMAIN hs : Numbered(hs[i])}) * 2 > Len(hs)

\* "page or 0", "fs or 0.0"
OrZero(v) == IF v = None THEN 0 ELSE v

\* lines 108-110
NumberedEntries(hs) ==
    [i \in DOMAIN hs |->
        TOCEntry(IF Numbered(hs[i])
                 THEN NumberingDots(HeadingText[hs[i].title]) + 1 ELSE 1,
                 hs[i].title, OrZero(hs[i].page))]

\* lines 122-131: the largest font size is level 1, the others level 2; one
\* size or none makes every heading level 1
SizedEntries(sz) ==
    LET distinct_sizes == {sz[i].size : i \in DOMAIN sz} \ {0}
    IN  [i \in DOMAIN sz |->
            TOCEntry(IF Cardinality(distinct_sizes) >= 2
                     THEN (IF sz[i].size >= MaxOf(distinct_sizes) THEN 1 ELSE 2)
                     ELSE 1,
                     sz[i].title, sz[i].page)]

\* what _lookup_font_size can return: a size in points, or None
FontSizes == {None, 10, 12}

\* (title, page) pairs: Docling gives a page or none
Headings == [title : HeadingTitles, page : {None} \cup (0..(NumPages - 1))]

\* lines 84-90 leave no title twice
DistinctTitles(hs) ==
    \A i, j \in DOMAIN hs : hs[i].title = hs[j].title => i = j

InitInfer ==
    /\ total_pages = NumPages
    /\ raw_toc = <<>>
    /\ max_level = 1
    /\ max_tokens = None
    /\ min_coverage = DefaultMinCoverage
    /\ text = <<>>
    /\ infer_cache = [cached |-> FALSE, value |-> <<>>]
    /\ infer_calls = 0
    /\ infer_runs = 0
    /\ pc = "infer_start"
    /\ toc = <<>>
    /\ content_range = NoRange
    /\ all_entries = <<>>
    /\ sections = <<>>
    /\ changed = FALSE
    /\ exception = ""
    /\ InitIdle
    /\ open_docs = 0
    /\ headings \in {hs \in SeqUpTo(Headings, MaxEntries) : DistinctTitles(hs)}
    /\ sized = <<>>
    /\ entries = <<>>
    /\ IdleInput
    /\ IdleWeb

enginevars ==
    <<docvars, text, infer_cache, infer_calls, infer_runs, toc, content_range,
      all_entries, sections, changed, classvars, sessionvars>>

\* lines 92-115: no heading, the numbering branch, or pymupdf.open
InferHierarchy ==
    /\ pc = "infer_start"
    /\ IF headings = <<>>
       THEN /\ entries' = <<>>
            /\ pc' = "infer_done"
            /\ open_docs' = open_docs
       ELSE IF UseNumbering(headings)
       THEN /\ entries' = NumberedEntries(headings)
            /\ pc' = "infer_done"
            /\ open_docs' = open_docs
       ELSE /\ entries' = <<>>
            /\ pc' = "infer_sizes"
            /\ open_docs' = open_docs + 1
    /\ UNCHANGED <<enginevars, exception, headings, sized, inputvars, webvars>>

\* lines 116-118: one heading of the loop; the lookup returns
InferLookup ==
    /\ pc = "infer_sizes"
    /\ Len(sized) < Len(headings)
    /\ LET h == headings[Len(sized) + 1]
       IN  \E fs \in (IF h.page = None THEN {None} ELSE FontSizes) :
              sized' = Append(sized, [size |-> OrZero(fs), title |-> h.title,
                                      page |-> OrZero(h.page)])
    /\ UNCHANGED <<enginevars, exception, pc, open_docs, headings, entries,
                   inputvars, webvars>>

\* line 117: _lookup_font_size raises (doc[page_num] or get_text); no
\* statement of infer_toc catches it or closes doc
InferLookupRaises ==
    /\ pc = "infer_sizes"
    /\ Len(sized) < Len(headings)
    /\ headings[Len(sized) + 1].page # None
    /\ exception' = "font-size lookup"
    /\ pc' = AfterRaise(pc)
    /\ UNCHANGED <<enginevars, open_docs, headings, sized, entries,
                   inputvars, webvars>>

\* lines 119-134: doc.close(), the levels, the return
InferLevels ==
    /\ pc = "infer_sizes"
    /\ Len(sized) = Len(headings)
    /\ open_docs' = open_docs - 1
    /\ entries' = SizedEntries(sized)
    /\ pc' = "infer_done"
    /\ UNCHANGED <<enginevars, exception, headings, sized, inputvars, webvars>>

NextInfer == InferHierarchy \/ InferLookup \/ InferLookupRaises \/ InferLevels

SpecInfer == InitInfer /\ [][NextInfer]_vars

(***************************************************************************)
(* extract.py: resolve_input(value, dest_dir), lines 27-83, called again   *)
(* and again on one dest_dir.  A value is its scheme ("" for a local       *)
(* path), host, path and query, each as characters; a file of dest_dir is  *)
(* the sequence of chunks written to it.                                   *)
(***************************************************************************)
\* chunks in the body of a PDF response
NumChunks == 2

Url(scheme, host, path, query) ==
    [scheme |-> scheme, host |-> host, path |-> path, query |-> query]

Values ==
    { Url("https", <<"a", ".", "o", "r", "g">>, <<"/", "p", "/", "x", ".", "p", "d", "f">>, <<>>),
      Url("https", <<"b", ".", "o", "r", "g">>, <<"/", "x", ".", "p", "d", "f">>, <<>>),
      Url("https", <<"g", "i", "t", "h", "u", "b", ".", "c", "o", "m">>, <<"/", "o", "/", "r", "/", "b", "l", "o", "b", "/", "x", ".", "p", "d", "f">>, <<>>),
      Url("https", <<"a", ".", "o", "r", "g">>, <<"/", "a", "%", "2", "0", "b", ".", "P", "D", "F">>, <<>>),
      Url("https", <<"a", ".", "o", "r", "g">>, <<"/", "s", "e", "r", "v", "e">>, <<"i", "d", "=", "1">>),
      Url("https", <<"a", ".", "o", "r", "g">>, <<"/">>, <<>>),
      Url("", <<>>, <<"x", ".", "p", "d", "f">>, <<>>) }

\* the value as the string the code tests with endswith
ValueChars(v) ==
    <<"h", "t", "t", "p", "s", ":", "/", "/">> \o v.host \o v.path
        \o (IF v.query = <<>> THEN <<>> ELSE <<"?">> \o v.query)

LowerChars(chars) == [i \in DOMAIN chars |-> Lower(chars[i])]

EndsWith(chars, suffix) ==
    /\ Len(chars) >= Len(suffix)
    /\ SubSeq(chars, Len(chars) - Len(suffix) + 1, Len(chars)) = suffix

\* the position of the k-th "/" of chars, 0 when there are fewer
RECURSIVE SlashAt(_, _, _)
SlashAt(chars, k, from) ==
    IF from > Len(chars) THEN 0
    ELSE IF chars[from] = "/"
         THEN (IF k = 1 THEN from ELSE SlashAt(chars, k - 1, from + 1))
         ELSE SlashAt(chars, k, from + 1)

\* lines 40-44: https?://github\.com/([^/]+/[^/]+)/blob/(.+) becomes the
\* raw.githubusercontent.com address of the file
GithubBlob(v) ==
    LET third == SlashAt(v.path, 3, 1)
        fourth == SlashAt(v.path, 4, 1)
    IN  /\ v.host = <<"g", "i", "t", "h", "u", "b", ".", "c", "o", "m">>
        /\ SlashAt(v.path, 1, 1) = 1
        /\ SlashAt(v.path, 2, 1) > 2
        /\ third > SlashAt(v.path, 2, 1) + 1
        /\ fourth > 0
        /\ SubSeq(v.path, third, fourth) = <<"/", "b", "l", "o", "b", "/">>
        /\ (fourth < Len(v.path) \/ v.query # <<>>)

Rewritten(v) ==
    IF GithubBlob(v)
    THEN Url(v.scheme, <<"r", "a", "w", ".", "g", "i", "t", "h", "u", "b", "u", "s", "e", "r", "c", "o", "n", "t", "e", "n", "t", ".", "c", "o", "m">>,
             SubSeq(v.path, 1, SlashAt(v.path, 3, 1))
                 \o SubSeq(v.path, SlashAt(v.path, 4, 1) + 1, Len(v.path)),
             v.query)
    ELSE v

\* urllib.parse.unquote on the escapes of the model
RECURSIVE Unquote(_)
Unquote(chars) ==
    IF chars = <<>> THEN <<>>
    ELSE IF Len(chars) >= 3 /\ SubSeq(chars, 1, 3) = <<"%", "2", "0">>
         THEN <<" ">> \o Unquote(SubSeq(chars, 4, Len(chars)))
    ELSE IF Len(chars) >= 3 /\ SubSeq(chars, 1, 3) = <<"%", "2", "F">>
         THEN <<"/">> \o Unquote(SubSeq(chars, 4, Len(chars)))
    ELSE <<Head(chars)>> \o Unquote(Tail(chars))

\* os.path.basename: what follows the last "/"
RECURSIVE Basename(_)
Basename(chars) ==
    IF \E i \in DOMAIN chars : chars[i] = "/"
    THEN Basename(Tail(chars))
    ELSE chars

\* line 64: re.sub(r"[^\w.\-]", "_", filename)
Sanitised(chars) ==
    [i \in DOMAIN chars |->
        IF IsWordChar(chars[i]) \/ chars[i] \in {".", "-"} THEN chars[i] ELSE "_"]

\* lines 59-64: the file name that a value is saved under
FileName(v) ==
    LET base == Basename(Unquote(v.path))
        named == IF base = <<>> THEN <<"d", "o", "w", "n", "l", "o", "a", "d", ".", "p", "d", "f">> ELSE base
        suffixed == IF EndsWith(LowerChars(named), <<".", "p", "d", "f">>)
                    THEN named ELSE named \o <<".", "p", "d", "f">>
    IN  Sanitised(suffixed)

\* the chunks that a successful download of v writes
Body(v) == [k \in 1..NumChunks |-> <<v, k>>]

\* what requests.head answers, or that it raises
HeadAnswers == {"application/pdf", "text/html", "RequestException"}

InputSource(kind, path, cached, url) ==
    [kind |-> kind, path |-> path, cached |-> cached, url |-> url]

NoRequest == [kind |-> "none"]

InitInput ==
    /\ total_pages = NumPages
    /\ raw_toc = <<>>
    /\ max_level = 1
    /\ max_tokens = None
    /\ min_coverage = DefaultMinCoverage
    /\ InitCall
    /\ InitIdle
    /\ open_docs = 0
    /\ IdleInfer
    /\ IdleWeb
    /\ files = <<>>
    /\ request = NoRequest
    /\ resolved = NoRequest

othervars == <<enginevars, pc, exception, open_docs, infervars, webvars>>

\* lines 35-74: a call up to its return, to the error of requests.get or
\* raise_for_status, or to open(local_path, "wb")
ResolveInput(value) ==
    /\ request.kind = "none"
    /\ \E head \in HeadAnswers, get \in {"ok", "error"} :
          LET v == Rewritten(value)
              is_pdf == \/ EndsWith(LowerChars(ValueChars(v)), <<".", "p", "d", "f">>)
                        \/ head = "application/pdf"
              local_path == FileName(v)
          IN  IF value.scheme = ""
              THEN /\ resolved' = InputSource("pdf", value.path, FALSE, value)
                   /\ UNCHANGED <<files, request>>
              ELSE IF ~is_pdf
              THEN /\ resolved' = InputSource("url", ValueChars(v), FALSE, v)
                   /\ UNCHANGED <<files, request>>
              ELSE IF local_path \in DOMAIN files
              THEN /\ resolved' = InputSource("pdf", local_path, TRUE, v)
                   /\ UNCHANGED <<files, request>>
              ELSE IF get = "error"
              THEN /\ resolved' = [kind |-> "raised"]
                   /\ UNCHANGED <<files, request>>
              ELSE /\ files' = (local_path :> <<>>) @@ files
                   /\ request' = [kind |-> "download", url |-> v,
                                  local_path |-> local_path]
                   /\ resolved' = NoRequest
    /\ UNCHANGED othervars

\* lines 76-77: one chunk of iter_content is written
WriteChunk ==
    /\ request.kind = "download"
    /\ Len(files[request.local_path]) < NumChunks
    /\ files' = [files EXCEPT ![request.local_path] =
                    Append(@, Body(request.url)[Len(@) + 1])]
    /\ UNCHANGED <<request, resolved, othervars>>

\* line 76: iter_content raises; the with statement closes the file, which
\* stays in dest_dir as far as it was written
DownloadFails ==
    /\ request.kind = "download"
    /\ Len(files[request.local_path]) < NumChunks
    /\ request' = NoRequest
    /\ resolved' = [kind |-> "raised"]
    /\ UNCHANGED <<files, othervars>>

\* lines 78-81: the body is written; return InputSource("pdf", local_path)
FinishDownload ==
    /\ request.kind = "download"
    /\ Len(files[request.local_path]) = NumChunks
    /\ request' = NoRequest
    /\ resolved' = InputSource("pdf", request.local_path, FALSE, request.url)
    /\ UNCHANGED <<files, othervars>>

NextInput ==
    \/ \E value \in Values : ResolveInput(value)
    \/ WriteChunk
    \/ DownloadFails
    \/ FinishDownload

SpecInput == InitInput /\ [][NextInput]_vars

(***************************************************************************)
(* web_parser/split_by_headings.py: split_by_headings(markdown, max_level) *)
(* on every text of up to MaxMarkdown characters of a small alphabet.  The *)
(* pattern is ^(#{1,max_level})\s+(.+)$ with re.MULTILINE: \s+ also takes  *)
(* line breaks, "." takes every character but the line break.              *)
(***************************************************************************)
\* the longest markdown text of the model
MaxMarkdown == 4

MarkdownChars == {"#", " ", "\n", "a"}

WebSection(title, content) == [title |-> title, content |-> content]

\* ^ with re.MULTILINE
AtLineStart(chars, i) == i = 1 \/ chars[i - 1] = "\n"

\* the first position from i on that does not hold c-like characters
RECURSIVE RunEnd(_, _, _)
RunEnd(chars, i, set) ==
    IF i <= Len(chars) /\ chars[i] \in set THEN RunEnd(chars, i + 1, set) ELSE i

\* the first position from i on that holds a line break, or Len(chars) + 1
RECURSIVE LineEnd(_, _)
LineEnd(chars, i) ==
    IF i <= Len(chars) /\ chars[i] # "\n" THEN LineEnd(chars, i + 1) ELSE i

\* the last position in lo..hi that holds no line break, 0 when none does
RECURSIVE LastInLine(_, _, _)
LastInLine(chars, lo, hi) ==
    IF hi < lo THEN 0
    ELSE IF chars[hi] # "\n" THEN hi ELSE LastInLine(chars, lo, hi - 1)

NoMatch == [start |-> 0, end |-> 0, title |-> <<>>]

\* the match of the pattern at position i: start, the position after the
\* match, and group(2)
HeadingAt(chars, i, maxlevel) ==
    LET hashes == RunEnd(chars, i, {"#"})
        spaces == RunEnd(chars, hashes, Whitespace)
        given_back == LastInLine(chars, hashes + 1, Len(chars))
    IN  IF ~AtLineStart(chars, i) \/ hashes = i \/ hashes - i > maxlevel
           \/ spaces = hashes
        THEN NoMatch
        ELSE IF spaces <= Len(chars)
        THEN [start |-> i, end |-> LineEnd(chars, spaces),
              title |-> SubSeq(chars, spaces, LineEnd(chars, spaces) - 1)]
        ELSE IF given_back # 0
        THEN [start |-> i, end |-> given_back + 1,
              title |-> SubSeq(chars, given_back, given_back)]
        ELSE NoMatch

\* line 32: list(pattern.finditer(markdown)), searching from position i
RECURSIVE Finditer(_, _, _)
Finditer(chars, i, maxlevel) ==
    IF i > Len(chars) THEN <<>>
    ELSE LET m == HeadingAt(chars, i, maxlevel)
         IN  IF m = NoMatch THEN Finditer(chars, i + 1, maxlevel)
             ELSE <<m>> \o Finditer(chars, m.end, maxlevel)

\* lines 34-52
split_by_headings(chars, maxlevel) ==
    LET matches == Finditer(chars, 1, maxlevel)
        preamble == StripChars(SubSeq(chars, 1, matches[1].start - 1))
        body(i) == StripChars(SubSeq(chars, matches[i].end,
                                     IF i + 1 <= Len(matches)
                                     THEN matches[i + 1].start - 1
                                     ELSE Len(chars)))
        all == [i \in DOMAIN matches |->
                   WebSection(StripChars(matches[i].title), body(i))]
    IN  IF matches = <<>>
        THEN <<WebSection(<<"F", "u", "l", "l", " ", "a", "r", "t", "i", "c", "l", "e">>, StripChars(chars))>>
        ELSE (IF preamble # <<>>
              THEN <<WebSection(<<"I", "n", "t", "r", "o", "d", "u", "c", "t", "i", "o", "n">>, preamble)>>
              ELSE <<>>)
             \o SelectSeq(all, LAMBDA sec : sec.content # <<>>)

InitWeb ==
    /\ total_pages = NumPages
    /\ raw_toc = <<>>
    /\ max_level \in 1..MaxLevel
    /\ max_tokens = None
    /\ min_coverage = DefaultMinCoverage
    /\ text = <<>>
    /\ infer_cache = [cached |-> FALSE, value |-> <<>>]
    /\ infer_calls = 0
    /\ infer_runs = 0
    /\ pc = "web_start"
    /\ toc = <<>>
    /\ content_range = NoRange
    /\ all_entries = <<>>
    /\ sections = <<>>
    /\ changed = FALSE
    /\ exception = ""
    /\ InitIdle
    /\ open_docs = 0
    /\ IdleInfer
    /\ IdleInput
    /\ markdown \in SeqUpTo(MarkdownChars, MaxMarkdown)
    /\ web_sections = <<>>

SplitByHeadingsCall ==
    /\ pc = "web_start"
    /\ web_sections' = split_by_headings(markdown, max_level)
    /\ pc' = "web_done"
    /\ UNCHANGED <<enginevars, exception, open_docs, infervars, inputvars,
                   markdown>>

NextWeb == SplitByHeadingsCall

SpecWeb == InitWeb /\ [][NextWeb]_vars

(***************************************************************************)
(* Observations used by the properties.                                    *)
(***************************************************************************)
PagesOf(secs) == UNION {secs[i].start_page .. secs[i].end_page : i \in DOMAIN secs}

RangePages(range) == range.start_page .. range.end_page

NonDegenerate(range) == range.start_page <= range.end_page

Returned == pc = "done"

\* the budget loop ran: the call got past the returns of lines 151, 173, 195
LoopRan == text # <<>>

Fits(sec) == _estimate_tokens(text, sec.start_page, sec.end_page) <= max_tokens

(***************************************************************************)
(* C1.  For a non-degenerate content range, the pages of the returned      *)
(* sections are exactly the pages start_page..end_page of the range.       *)
(***************************************************************************)
C1_Coverage ==
    Returned /\ NonDegenerate(content_range)
        => PagesOf(sections) = RangePages(content_range)

(***************************************************************************)
(* C2.  In every section list the call produces, sections are in ascending *)
(* start_page order and no two sections share a page.                      *)
(***************************************************************************)
C2_SortedDisjoint ==
    pc \in {"loop", "done"}
        => \A i, j \in DOMAIN sections :
              i < j => /\ sections[i].start_page <= sections[j].start_page
                       /\ (sections[i].start_page .. sections[i].end_page)
                            \cap (sections[j].start_page .. sections[j].end_page) = {}

(***************************************************************************)
(* C3.  After budget enforcement every returned section fits the budget or *)
(* is a single page.                                                       *)
(***************************************************************************)
C3_BudgetMet ==
    Returned /\ LoopRan
        => \A i \in DOMAIN sections :
              Fits(sections[i]) \/ sections[i].start_page = sections[i].end_page

(***************************************************************************)
(* C4.  The budget loop terminates: once entered, a pass ends with the     *)
(* flag false and the call returns.                                        *)
(***************************************************************************)
C4_Terminates == (pc = "loop") ~> (pc = "done")

\* the loop changed the initial list and then returned
C4_Witness ==
    /\ Returned
    /\ LoopRan
    /\ sections # InitialSections(all_entries, content_range, max_level)

(***************************************************************************)
(* C6.  With no outline at all, or with no entry surviving the filter, the *)
(* call returns the single level-1 section "Full Document" over the        *)
(* content range, which is the whole file when there is no outline.        *)
(***************************************************************************)
NoneSurvives ==
    \A i \in DOMAIN all_entries :
        ~ /\ all_entries[i].level <= max_level
          /\ all_entries[i].kind \in {"preamble", "content"}
          /\ content_range.start_page <= all_entries[i].page
          /\ all_entries[i].page <= content_range.end_page

C6_FullDocument ==
    Returned /\ NoneSurvives
        => /\ Len(sections) = 1
           /\ sections[1].title = [base |-> "Full Document", parts |-> <<>>]
           /\ sections[1].level = 1
           /\ sections[1].start_page = content_range.start_page
           /\ sections[1].end_page = content_range.end_page
           /\ (toc = <<>> => /\ sections[1].start_page = 0
                             /\ sections[1].end_page = total_pages - 1)

\* an outline whose entries are all filtered out, with a trimmed range
C6_Witness ==
    /\ Returned
    /\ toc # <<>>
    /\ NoneSurvives
    /\ content_range.end_page < total_pages - 1

(***************************************************************************)
(* C5.  Budget enforcement is idempotent: the loop run again on the list   *)
(* it returned returns that list.                                          *)
(***************************************************************************)
C5_Idempotent ==
    Returned /\ LoopRan
        => EnforceBudget(text, max_tokens, all_entries, sections) = sections

(***************************************************************************)
(* C7.  On 100 pages with min_coverage 0.3, an embedded outline whose      *)
(* last page is 29 is rejected for the inferred one, and one whose last    *)
(* page is 30 is returned.                                                 *)
(***************************************************************************)
LastPageIs(es, p) ==
    /\ \E i \in DOMAIN es : es[i].page = p
    /\ \A i \in DOMAIN es : es[i].page <= p

C7_Threshold ==
    pc = "toc_done" /\ total_pages = 100 /\ min_coverage = 3
        => /\ LastPageIs(Embedded, 29)
                => infer_calls = 1 /\ toc = infer_cache.value
           /\ LastPageIs(Embedded, 30)
                => infer_calls = 0 /\ toc = Embedded

\* an embedded outline that ends exactly on page 30 of 100 was returned
C7_Witness ==
    /\ pc = "toc_done"
    /\ total_pages = 100
    /\ min_coverage = 3
    /\ LastPageIs(Embedded, 30)
    /\ toc = Embedded

(***************************************************************************)
(* C8.  _get_toc returns the embedded outline, without calling inference,  *)
(* exactly when it is non-empty and its last page is at least              *)
(* total_pages * min_coverage; otherwise it calls inference once and       *)
(* returns what inference found, empty or not.                             *)
(***************************************************************************)
C8_Selection ==
    pc = "toc_done"
        => IF /\ Embedded # <<>>
              /\ \E i \in DOMAIN Embedded :
                    Embedded[i].page * 10 >= total_pages * min_coverage
           THEN /\ toc = Embedded
                /\ infer_calls = 0
                /\ infer_runs = 0
           ELSE /\ infer_calls = 1
                /\ infer_runs = 1
                /\ toc = infer_cache.value

\* a sparse embedded outline was dropped for an empty inferred one
C8_Witness ==
    /\ pc = "toc_done"
    /\ Embedded # <<>>
    /\ infer_calls = 1
    /\ toc = <<>>

(***************************************************************************)
(* The level-1 entries as a scan in page order sees them: every            *)
(* arrangement of the list in which pages never decrease.                  *)
(***************************************************************************)
Arrangements(n) ==
    {f \in [1..n -> 1..n] : \A i, j \in 1..n : i # j => f[i] # f[j]}

PageOrders(top) ==
    {[i \in 1..Len(top) |-> top[f[i]]] :
        f \in {g \in Arrangements(Len(top)) :
                 \A i, j \in 1..Len(top) : i < j => top[g[i]].page <= top[g[j]].page}}

ClassifiedTop == TopLevel(ClassifyAll(toc))

(***************************************************************************)
(* C9.  resolve_content_pages scans the level-1 entries in page order:     *)
(* start_page is the page of the first preamble or content entry, the      *)
(* entries before it, and only they, are in skipped_front in scan order,   *)
(* and start_page is 0 when no entry is preamble or content.               *)
(***************************************************************************)
FrontScanOf(ord, range) ==
    LET content == {i \in DOMAIN ord : ord[i].kind \in {"preamble", "content"}}
    IN  IF content = {}
        THEN range.start_page = 0
        ELSE LET k == CHOOSE i \in content : \A j \in content : i <= j
             IN  /\ range.start_page = ord[k].page
                 /\ range.skipped_front = [j \in 1..(k - 1) |-> Skipped(ord[j])]

C9_FrontScan ==
    pc = "pages_done" /\ toc # <<>>
        => \E ord \in PageOrders(ClassifiedTop) : FrontScanOf(ord, content_range)

(***************************************************************************)
(* C10.  resolve_content_pages scans the level-1 entries in reverse page   *)
(* order: the trailing run of back entries is skipped_back in ascending    *)
(* page order, end_page is one less than the smallest page of the run, and *)
(* without a trailing back entry end_page is total_pages - 1 and           *)
(* skipped_back is empty.                                                  *)
(***************************************************************************)
BackScanOf(ord, range) ==
    LET n == Len(ord)
        runs == {k \in 1..(n + 1) : \A j \in k..n : ord[j].kind = "back"}
        k == CHOOSE i \in runs : \A j \in runs : i <= j
    IN  IF k > n
        THEN /\ range.end_page = total_pages - 1
             /\ range.skipped_back = <<>>
        ELSE /\ range.end_page = ord[k].page - 1
             /\ range.skipped_back = [j \in 1..(n - k + 1) |-> Skipped(ord[k + j - 1])]

C10_BackScan ==
    pc = "pages_done" /\ toc # <<>>
        => \E ord \in PageOrders(ClassifiedTop) : BackScanOf(ord, content_range)

(***************************************************************************)
(* C11.  Every content range resolve_content_pages returns and every       *)
(* section resolve_content_sections returns has start_page <= end_page.    *)
(***************************************************************************)
C11_Ordered ==
    /\ pc \in {"pages_done", "loop", "done"}
          => content_range.start_page <= content_range.end_page
    /\ Returned
          => \A i \in DOMAIN sections :
                sections[i].start_page <= sections[i].end_page

(***************************************************************************)
(* C12.  When the content range is degenerate (start_page > end_page) the  *)
(* returned sections cover the full page span 0..total_pages-1.            *)
(***************************************************************************)
C12_FullSpanFallback ==
    Returned /\ content_range.start_page > content_range.end_page
        => PagesOf(sections) = 0..(total_pages - 1)

(***************************************************************************)
(* C13.  classify_entry returns one of front, back, preamble, content      *)
(* for every entry: front when the trimmed title matches a front pattern,  *)
(* else back when it matches a back pattern, else preamble when it matches *)
(* a preamble pattern, else content.  Entries whose trimmed titles are     *)
(* equal get the same kind whatever their page and level, and the call     *)
(* leaves the entry as it was.                                             *)
(***************************************************************************)
Trimmed(i) == StripChars(TextOf[call_entries[i].title])

C13_Classifier ==
    /\ \A i \in DOMAIN call_kinds :
          /\ call_kinds[i] \in {"front", "back", "preamble", "content"}
          /\ call_kinds[i] = "front" <=> MatchesFront(Trimmed(i))
          /\ call_kinds[i] = "back"
                <=> ~MatchesFront(Trimmed(i)) /\ MatchesBack(Trimmed(i))
          /\ call_kinds[i] = "preamble"
                <=> /\ ~MatchesFront(Trimmed(i))
                    /\ ~MatchesBack(Trimmed(i))
                    /\ MatchesPreamble(Trimmed(i))
          /\ call_entries[i].kind = ""
    /\ \A i, j \in DOMAIN call_kinds :
          Trimmed(i) = Trimmed(j) => call_kinds[i] = call_kinds[j]

\* a padded title and its trimmed form, on different pages and levels, were
\* both classified as front matter
C13_Witness ==
    /\ Len(call_kinds) = 2
    /\ call_entries[1].title = " Cover"
    /\ call_entries[2].title = "Cover"
    /\ call_entries[1].page # call_entries[2].page
    /\ call_entries[1].level # call_entries[2].level
    /\ call_kinds = <<"front", "front">>

(***************************************************************************)
(* C14.  Every entry of the outline that resolve_content_pages and the     *)
(* section builder work on has its page within 0..total_pages-1.           *)
(***************************************************************************)
C14_PagesInDocument ==
    pc \in {"pages_done", "done"}
        => /\ \A i \in DOMAIN toc : toc[i].page \in 0..(total_pages - 1)
           /\ \A i \in DOMAIN all_entries :
                 all_entries[i].page \in 0..(total_pages - 1)

(***************************************************************************)
(* C15.  extract_toc returns, in the bookmarks' order, one entry for each  *)
(* bookmark whose page is at least 1: same level, the title without its    *)
(* leading and trailing whitespace, page - 1.  Bookmarks whose converted   *)
(* page is negative are dropped, and no bookmarks give the empty list.     *)
(***************************************************************************)
\* stripped is text without its leading and trailing whitespace
IsStripped(stripped, chars) ==
    /\ stripped # <<>> => /\ stripped[1] \notin Whitespace
                          /\ stripped[Len(stripped)] \notin Whitespace
    /\ \E i \in 0..Len(chars) : \E j \in i..Len(chars) :
          /\ stripped = SubSeq(chars, i + 1, j)
          /\ \A k \in (1..i) \cup ((j + 1)..Len(chars)) : chars[k] \in Whitespace

KeptBookmarks == {i \in DOMAIN raw_toc : raw_toc[i].page >= 1}

C15_ExtractToc ==
    pc = "extracted"
        => /\ Len(toc) = Cardinality(KeptBookmarks)
           /\ raw_toc = <<>> => toc = <<>>
           /\ \E f \in [DOMAIN toc -> KeptBookmarks] :
                 /\ \A i, j \in DOMAIN toc : i < j => f[i] < f[j]
                 /\ \A i \in DOMAIN toc :
                       /\ toc[i].level = raw_toc[f[i]].level
                       /\ toc[i].page = raw_toc[f[i]].page - 1
                       /\ IsStripped(TextOf[toc[i].title], TextOf[raw_toc[f[i]].title])

\* a bookmark with a padded title was kept and one on page 0 was dropped
C15_Witness ==
    /\ pc = "extracted"
    /\ Len(raw_toc) = 2
    /\ raw_toc[1].page = 0
    /\ raw_toc[2].title = "  Chapter 1  "
    /\ raw_toc[2].page = NumPages + 1
    /\ toc = <<TOCEntry(raw_toc[2].level, "Chapter 1", NumPages)>>

(***************************************************************************)
(* C16.  Page-level chunking of an over-budget section without children    *)
(* at the deepest level gives consecutive chunks that partition the        *)
(* section's pages in ascending order; each chunk fits the budget or is a  *)
(* single page; several chunks are titled "<title> (part N)", N = 1, 2,    *)
(* ... in order, and a single chunk keeps the title.                       *)
(***************************************************************************)
IsPageChunked(sec) ==
    /\ ~Fits(sec)
    /\ Children(all_entries, sec) = <<>>
    /\ sec.level >= DeepestLevel(all_entries)

ChunksOf(sec) ==
    PageChunks(text, max_tokens, sec, sec.start_page, sec.start_page, 1, <<>>)[1]

WellChunked(sec, chunks) ==
    /\ chunks # <<>>
    /\ chunks[1].start_page = sec.start_page
    /\ chunks[Len(chunks)].end_page = sec.end_page
    /\ \A k \in DOMAIN chunks :
          /\ chunks[k].start_page <= chunks[k].end_page
          /\ k < Len(chunks) => chunks[k + 1].start_page = chunks[k].end_page + 1
          /\ Fits(chunks[k]) \/ chunks[k].start_page = chunks[k].end_page
          /\ chunks[k].level = sec.level
          /\ chunks[k].title =
                IF Len(chunks) = 1 THEN sec.title
                ELSE [base |-> sec.title.base, parts |-> Append(sec.title.parts, k)]

C16_PageChunks ==
    pc = "loop"
        => \A i \in DOMAIN sections :
              IsPageChunked(sections[i]) => WellChunked(sections[i], ChunksOf(sections[i]))

\* a section of four pages was returned as three chunks, one of two pages
C16_Witness ==
    /\ Returned
    /\ Len(sections) = 3
    /\ sections[1].start_page = 0
    /\ sections[3].end_page = 3
    /\ \E k \in 1..3 : sections[k].start_page < sections[k].end_page
    /\ \A k \in 1..3 : sections[k].title = [base |-> "Chapter 1", parts |-> <<k>>]

(***************************************************************************)
(* C17.  With max_tokens None the call returns the initial section list    *)
(* as built from the filtered outline, and the size estimator is never     *)
(* invoked: no page text is read.                                          *)
(***************************************************************************)
C17_BudgetDisabled ==
    Returned /\ max_tokens = None
        => /\ sections = InitialSections(all_entries, content_range, max_level)
           /\ text = <<>>

\* two outline sections were returned without the budget
C17_Witness ==
    /\ Returned
    /\ max_tokens = None
    /\ Len(sections) = 2
    /\ sections[1].title.base = "Preface"
    /\ sections[2].title.base = "Chapter 1"
    /\ text = <<>>

(***************************************************************************)
(* C18.  An error raised by an outline source or by the size estimator     *)
(* leaves resolve_content_sections: the call has then not returned a       *)
(* section list, and it takes no further step (no retry, no return of the  *)
(* list built so far).                                                     *)
(***************************************************************************)
C18_ErrorsPropagate ==
    /\ [](exception # "" => pc = "raised")
    /\ [][exception = ""]_vars

\* the estimator raised after a pass had refined the list
C18_Witness ==
    /\ pc = "raised"
    /\ exception = "size estimator"
    /\ sections # InitialSections(all_entries, content_range, max_level)

(***************************************************************************)
(* C19.  Over any sequence of calls on any set of documents, the layout    *)
(* analysis inside infer_toc runs at most once for each path.              *)
(***************************************************************************)
C19_InferredOnce ==
    \A path \in DOMAIN session_runs : session_runs[path] <= 1

(***************************************************************************)
(* C20.  The initial section list has exactly one section per outline      *)
(* entry with level <= max_level, kind preamble or content and page in     *)
(* the content range, the entries taken sorted by page: each section has   *)
(* the entry's title and level, starts at the entry's page and ends at     *)
(* max(entry.page, next_entry.page - 1), the last at the range's end_page. *)
(* With the budget disabled the returned list is the initial list.         *)
(***************************************************************************)
Survives(e) ==
    /\ e.level <= max_level
    /\ e.kind \in {"preamble", "content"}
    /\ content_range.start_page <= e.page
    /\ e.page <= content_range.end_page

BuiltFrom(ord, secs) ==
    /\ Len(secs) = Len(ord)
    /\ \A k \in DOMAIN ord :
          /\ secs[k].title = [base |-> ord[k].title, parts |-> <<>>]
          /\ secs[k].level = ord[k].level
          /\ secs[k].start_page = ord[k].page
          /\ secs[k].end_page =
                IF k < Len(ord)
                THEN (IF ord[k].page > ord[k + 1].page - 1
                      THEN ord[k].page ELSE ord[k + 1].page - 1)
                ELSE content_range.end_page

C20_InitialSections ==
    /\ Returned
    /\ max_tokens = None
    /\ \E i \in DOMAIN all_entries : Survives(all_entries[i])
    => \E ord \in PageOrders(SelectSeq(all_entries, Survives)) : BuiltFrom(ord, sections)

(***************************************************************************)
(* C21.  The budget loop stops only after a pass that replaced no section: *)
(* a pass that subdivides a section or splits one into several chunks is   *)
(* followed by another pass, whatever happens to the sections processed    *)
(* after it in that pass.                                                  *)
(***************************************************************************)
C21_StopsAtFixedPass ==
    [][pc = "loop" /\ sections' # sections => pc' = "loop"]_vars

(***************************************************************************)
(* C22.  An over-budget section with child entries (one level deeper, kind *)
(* preamble or content, page inside the section) is replaced by an         *)
(* optional leading section with the parent's title and level, from the    *)
(* parent's start page to the page before the first child and present only *)
(* when the first child starts later than the parent, then one section per *)
(* child ending at max(child.page, next_child.page - 1), the last child    *)
(* ending at the parent's end page.                                        *)
(***************************************************************************)
IsChildOf(e, sec) ==
    /\ e.level = sec.level + 1
    /\ e.kind \in {"preamble", "content"}
    /\ sec.start_page <= e.page
    /\ e.page <= sec.end_page

ChildIndexes(sec) == {i \in DOMAIN all_entries : IsChildOf(all_entries[i], sec)}

\* the k-th child of sec, in the order of the outline
KthChild(sec, k) ==
    all_entries[CHOOSE i \in ChildIndexes(sec) :
                    Cardinality({j \in ChildIndexes(sec) : j <= i}) = k]

ReplacedByChildren(sec, out) ==
    LET n == Cardinality(ChildIndexes(sec))
        lead == IF KthChild(sec, 1).page > sec.start_page THEN 1 ELSE 0
    IN  /\ Len(out) = lead + n
        /\ lead = 1 =>
             /\ out[1].title = sec.title
             /\ out[1].level = sec.level
             /\ out[1].start_page = sec.start_page
             /\ out[1].end_page = KthChild(sec, 1).page - 1
        /\ \A k \in 1..n :
             /\ out[lead + k].title = PlainTitle(KthChild(sec, k).title)
             /\ out[lead + k].level = KthChild(sec, k).level
             /\ out[lead + k].start_page = KthChild(sec, k).page
             /\ out[lead + k].end_page =
                  IF k < n
                  THEN MaxOf({KthChild(sec, k).page, KthChild(sec, k + 1).page - 1})
                  ELSE sec.end_page

C22_Subdivision ==
    pc = "loop" =>
        \A i \in DOMAIN sections :
            (~Fits(sections[i]) /\ ChildIndexes(sections[i]) # {}) =>
                ReplacedByChildren(sections[i],
                    ProcessSection(text, max_tokens, all_entries,
                                   DeepestLevel(all_entries), sections[i], FALSE)[1])

\* a level-1 section was replaced by its leading pages and two children
C22_Witness ==
    /\ LoopRan
    /\ max_level = 1
    /\ Len(sections) = 3
    /\ sections[1].level = 1 /\ sections[1].end_page = 0
    /\ sections[2].level = 2 /\ sections[3].level = 2

(***************************************************************************)
(* C23.  Every replacement of an over-budget section puts two or more      *)
(* sections in its place, so a pass that is marked as changed strictly     *)
(* increases the number of sections.                                       *)
(***************************************************************************)
C23_ChangedPassGrows ==
    [][(pc = "loop" /\ changed') => Len(sections') > Len(sections)]_vars

(***************************************************************************)
(* C24.  An over-budget section without child entries whose level is less  *)
(* than the deepest level of the outline is kept as it is by the pass: it  *)
(* is not page-chunked and it leaves the changed flag as it found it.      *)
(***************************************************************************)
KeptAsIs(sec) ==
    (/\ ~Fits(sec)
     /\ ChildIndexes(sec) = {}
     /\ sec.level < DeepestLevel(all_entries))

C24_KeptUnchanged ==
    pc = "loop" =>
        \A i \in DOMAIN sections : \A flag \in BOOLEAN :
            KeptAsIs(sections[i]) =>
                ProcessSection(text, max_tokens, all_entries,
                               DeepestLevel(all_entries), sections[i], flag)
                    = <<(<<sections[i]>>), flag>>

\* the call returned a section of several pages that is over the budget, has
\* no child entries and is above the deepest level
C24_Witness ==
    /\ Returned
    /\ LoopRan
    /\ \E i \in DOMAIN sections :
          /\ KeptAsIs(sections[i])
          /\ sections[i].start_page < sections[i].end_page

(***************************************************************************)
(* C25.  A pass of the budget loop preserves the set of covered pages: the *)
(* union of the page ranges of the sections after the pass is the union    *)
(* before it, whatever the order of the outline (children out of page      *)
(* order or sharing a page included).                                      *)
(***************************************************************************)
C25_PassKeepsPages ==
    [][pc = "loop" => PagesOf(sections') = PagesOf(sections)]_vars

\* a pass replaced a level-1 section by children that are out of page order
C25_Witness ==
    /\ LoopRan
    /\ max_level = 1
    /\ \E i \in DOMAIN sections :
          /\ i + 1 \in DOMAIN sections
          /\ sections[i].level = 2
          /\ sections[i + 1].level = 2
          /\ sections[i].start_page > sections[i + 1].start_page

(***************************************************************************)
(* C26.  Every section of every list that resolve_content_sections builds  *)
(* lies inside the resolved content range: it starts at or after           *)
(* start_page and ends at or before end_page, so it holds no page before   *)
(* the range (skipped front matter) and none after it (skipped back        *)
(* matter).                                                                *)
(***************************************************************************)
C26_InsideRange ==
    \A i \in DOMAIN sections :
        /\ content_range.start_page <= sections[i].start_page
        /\ sections[i].end_page <= content_range.end_page
        /\ \A p \in sections[i].start_page .. sections[i].end_page :
              p \in RangePages(content_range)

\* sections were built from the outline for a range that leaves out the
\* leading front matter
C26_Witness ==
    /\ Returned
    /\ content_range.skipped_front # <<>>
    /\ content_range.start_page > 0
    /\ sections # <<>>
    /\ sections[1].title # PlainTitle("Full Document")

(***************************************************************************)
(* C27.  The size estimator is only handed page ranges [s, e] with         *)
(* 0 <= s <= e <= total_pages - 1: every section that a pass of the loop   *)
(* is about to measure lies inside the document, and the estimator never   *)
(* fails on a page that does not exist.                                    *)
(***************************************************************************)
C27_EstimatorInDocument ==
    /\ (pc = "loop" /\ changed) =>
          \A i \in DOMAIN sections :
              /\ 0 <= sections[i].start_page
              /\ sections[i].start_page <= sections[i].end_page
              /\ sections[i].end_page <= total_pages - 1
    /\ exception # "page not in document"

(***************************************************************************)
(* C28.  A document opened by _get_toc, resolve_content_pages,             *)
(* resolve_content_sections or infer_toc is closed by the time the call    *)
(* returns or raises, also when the size estimator or the font-size lookup *)
(* raises part-way: no handle is open once a call is over.                 *)
(***************************************************************************)
C28_HandlesClosed ==
    pc \in {"done", "raised", "infer_done"} => open_docs = 0

(***************************************************************************)
(* C29.  Over any sequence of resolve_input calls, a local file that a     *)
(* call reuses as the cached PDF of a URL, skipping the download, is the   *)
(* complete result of a successful download of that same URL.              *)
(***************************************************************************)
C29_CacheIsOwnDownload ==
    (resolved.kind = "pdf" /\ resolved.cached) =>
        files[resolved.path] = Body(resolved.url)

(***************************************************************************)
(* C30.  split_by_headings returns at least one section for every markdown *)
(* text and every max_level >= 1: the single section "Full article" with   *)
(* the text when no heading matches, and a non-empty list when headings    *)
(* match, even if every heading has an empty body and no text precedes the *)
(* first heading.                                                          *)
(***************************************************************************)
C30_NonEmpty ==
    pc = "web_done" =>
        /\ Len(web_sections) >= 1
        /\ Finditer(markdown, 1, max_level) = <<>> =>
              /\ Len(web_sections) = 1
              /\ web_sections[1].title = <<"F", "u", "l", "l", " ", "a", "r", "t", "i", "c", "l", "e">>
              /\ web_sections[1].content = StripChars(markdown)

=============================================================================
